---- MODULE Spec2Model ----
(***************************************************************************)
(* Model of the JSON tools of src/src/tools/diffPatchTools.ts              *)
(* (createJsonTools): path resolution, the clone-and-mutate helpers, the   *)
(* tool handlers and the batch executor, over a host store of document     *)
(* text.                                                                   *)
(*                                                                         *)
(* JavaScript values are tagged records:                                   *)
(*   [t |-> "undefined"]            undefined                             *)
(*   [t |-> "null"]                 null                                  *)
(*   [t |-> "boolean", v |-> b]     true / false                          *)
(*   [t |-> "number",  v |-> n]     a number                              *)
(*   [t |-> "string",  v |-> cs]    a string, cs its sequence of chars    *)
(*   [t |-> "array", v |-> es, p |-> ps]   an array: es its elements (a   *)
(*        hole is undefined), ps its non-index own properties as pairs    *)
(*   [t |-> "object", v |-> ps]     an object: ps its own properties as   *)
(*        <<key, value>> pairs in enumeration order                       *)
(* A document text is [k |-> "json", doc |-> value] (the text that         *)
(* JSON.stringify produced for value), [k |-> "undefined"] (what           *)
(* JSON.stringify(undefined) returns) or [k |-> "garbage"] (text that is   *)
(* not JSON).                                                              *)
(***************************************************************************)
EXTENDS Integers, Sequences, FiniteSets, TLC

\* ------------------------------------------------------------------ bounds
MaxDepth == 2        \* longest path, in segments, of a single tool call
MaxOps == 2          \* longest batch

\* ------------------------------------------------------------------ values
Undef == [t |-> "undefined"]
Null == [t |-> "null"]
Bool(b) == [t |-> "boolean", v |-> b]
Num(n) == [t |-> "number", v |-> n]
Str(cs) == [t |-> "string", v |-> cs]
Arr(es) == [t |-> "array", v |-> es, p |-> <<>>]
Obj(ps) == [t |-> "object", v |-> ps]

IsArray(x) == x.t = "array"
\* x == null (loose): null or undefined
IsNullish(x) == x.t \in {"null", "undefined"}
\* typeof x === 'object' && x !== null
IsObjectLike(x) == x.t \in {"array", "object"}
IsPrimitive(x) == x.t \in {"boolean", "number", "string"}

\* The words a path segment is drawn from.  IndexWords are the decimal
\* numerals; every other word makes parseInt return NaN.
IndexWords == <<"0", "1", "2", "3">>
IsNaN(word) == \A i \in DOMAIN IndexWords : IndexWords[i] # word
ParseInt(word) == (CHOOSE i \in DOMAIN IndexWords : IndexWords[i] = word) - 1
NumToWord(n) == IndexWords[n + 1]

\* A key as navigateToPath returns it: a number (num) or a string.
NumKey(word) == [num |-> TRUE, s |-> word]
StrKey(word) == [num |-> FALSE, s |-> word]
EmptyKey == StrKey("")

\* ------------------------------------------------------- property access
RECURSIVE PairIndex(_, _, _)
PairIndex(ps, name, i) ==
  IF i > Len(ps) THEN 0
  ELSE IF ps[i][1] = name THEN i
  ELSE PairIndex(ps, name, i + 1)

HasPair(ps, name) == PairIndex(ps, name, 1) # 0
PairValue(ps, name) == IF HasPair(ps, name) THEN ps[PairIndex(ps, name, 1)][2] ELSE Undef

\* Names every object (and array) inherits from its prototype; `in` sees them.
InheritedNames == {"toString", "constructor"}
Inherited(name) == [t |-> "function", v |-> name]

\* current[n] for an array and a number n
ArrGet(arr, n) ==
  IF n >= 0 /\ n < Len(arr.v) THEN arr.v[n + 1]
  ELSE Undef

\* current?.[name] for a string name
GetProp(x, name) ==
  CASE x.t = "object" ->
         IF HasPair(x.v, name) THEN PairValue(x.v, name)
         ELSE IF name \in InheritedNames THEN Inherited(name) ELSE Undef
    [] x.t = "array" ->
         IF ~IsNaN(name) THEN ArrGet(x, ParseInt(name))
         ELSE IF HasPair(x.p, name) THEN PairValue(x.p, name)
         ELSE IF name \in InheritedNames THEN Inherited(name) ELSE Undef
    [] x.t = "string" ->
         IF ~IsNaN(name) /\ ParseInt(name) < Len(x.v) THEN Str(<<x.v[ParseInt(name) + 1]>>)
         ELSE IF name \in InheritedNames THEN Inherited(name) ELSE Undef
    [] x.t \in {"number", "boolean"} ->
         IF name \in InheritedNames THEN Inherited(name) ELSE Undef
    [] OTHER -> Undef

\* name in x, for x an object or an array (a primitive x makes `in` throw)
HasIn(x, name) ==
  CASE x.t = "object" -> HasPair(x.v, name) \/ name \in InheritedNames
    [] x.t = "array" ->
         \/ (~IsNaN(name) /\ ParseInt(name) < Len(x.v) /\ x.v[ParseInt(name) + 1] # Undef)
         \/ HasPair(x.p, name)
         \/ name \in InheritedNames
    [] OTHER -> FALSE

\* ------------------------------------------------------- property update
\* Own properties enumerate integer-like keys first, in ascending order, then
\* the other keys in insertion order.
RECURSIVE InsertIndexPair(_, _, _, _)
InsertIndexPair(ps, name, val, i) ==
  IF i > Len(ps) \/ IsNaN(ps[i][1]) \/ ParseInt(ps[i][1]) > ParseInt(name)
  THEN SubSeq(ps, 1, i - 1) \o << <<name, val>> >> \o SubSeq(ps, i, Len(ps))
  ELSE InsertIndexPair(ps, name, val, i + 1)

\* SetPair with the slip of adding the property without looking for it
SetPair_alwaysAppends(ps, name, val) == Append(ps, <<name, val>>)

\* o[name] = val on a list of own properties
SetPair(ps, name, val) ==
  IF HasPair(ps, name)
  THEN [ps EXCEPT ![PairIndex(ps, name, 1)] = <<name, val>>]
  ELSE IF ~IsNaN(name) THEN InsertIndexPair(ps, name, val, 1)
  ELSE Append(ps, <<name, val>>)

\* DeletePair with the slip of nulling the property instead of deleting it
DeletePair_setsNull(ps, name) ==
  [i \in 1..Len(ps) |-> IF ps[i][1] = name THEN <<name, Null>> ELSE ps[i]]

\* delete o[name]
DeletePair(ps, name) == SelectSeq(ps, LAMBDA pr : pr[1] # name)

\* arr[n] = val for n >= 0: beyond the end the array grows, leaving holes
SetElem(es, n, val) ==
  [i \in 1..(IF n + 1 > Len(es) THEN n + 1 ELSE Len(es)) |->
     IF i = n + 1 THEN val
     ELSE IF i <= Len(es) THEN es[i] ELSE Undef]

\* arr.splice(n, 1)
SpliceOut(es, n) ==
  IF n >= 0 /\ n < Len(es)
  THEN SubSeq(es, 1, n) \o SubSeq(es, n + 2, Len(es))
  ELSE es

\* SpliceIn with the slip of a delete count of 1: the element at n is replaced
SpliceIn_overwrites(es, n, val) == SubSeq(es, 1, n) \o <<val>> \o SubSeq(es, n + 2, Len(es))

\* arr.splice(n, 0, val)
SpliceIn(es, n, val) == SubSeq(es, 1, n) \o <<val>> \o SubSeq(es, n + 1, Len(es))

\* ---------------------------------------------------------- serialization
\* What JSON.stringify keeps of a value: undefined and functions vanish from
\* objects and become null in arrays; non-index properties of arrays vanish.
Vanishes(x) == x.t \in {"undefined", "function"}

RECURSIVE Serialized(_)
Serialized(x) ==
  CASE x.t = "array" ->
         Arr([i \in 1..Len(x.v) |->
                IF Vanishes(x.v[i]) THEN Null ELSE Serialized(x.v[i])])
    [] x.t = "object" ->
         LET kept == SelectSeq(x.v, LAMBDA pr : ~Vanishes(pr[2]))
         IN Obj([i \in 1..Len(kept) |-> <<kept[i][1], Serialized(kept[i][2])>>])
    [] OTHER -> x

GarbageText == [k |-> "garbage"]
UndefinedText == [k |-> "undefined"]
JsonText(doc) == [k |-> "json", doc |-> doc]

stringifyJson(data) ==
  IF Vanishes(data) THEN UndefinedText ELSE JsonText(Serialized(data))

\* parseJson with the slip of answering a failed parse with an empty document
parseJson_lenient(content) ==
  IF content.k = "json"
  THEN [success |-> TRUE, data |-> content.doc]
  ELSE [success |-> TRUE, data |-> Null]

parseJson(content) ==
  IF content.k = "json"
  THEN [success |-> TRUE, data |-> content.doc]
  ELSE [success |-> FALSE, error |-> "Invalid JSON"]

\* JSON.parse(JSON.stringify(x)): throws when x is undefined
DeepClone(x) ==
  IF Vanishes(x) THEN [threw |-> TRUE] ELSE [threw |-> FALSE, val |-> Serialized(x)]

\* -------------------------------------------------------- path resolution
\* A path is the sequence of its tokens: "$", ".", "[", "]" and words.
Delimiters == {".", "[", "]"}
RootPath == <<"$">>

cleanPathOf(path) ==
  IF Len(path) >= 2 /\ path[1] = "$" /\ path[2] = "." THEN SubSeq(path, 3, Len(path))
  ELSE IF Len(path) >= 1 /\ path[1] = "$" THEN SubSeq(path, 2, Len(path))
  ELSE path

\* partsOf with the slip of splitting the path at the dots only
partsOf_dotsOnly(path) == SelectSeq(cleanPathOf(path), LAMBDA tok : tok # ".")

partsOf(path) == SelectSeq(cleanPathOf(path), LAMBDA tok : tok \notin Delimiters)

\* The loop of navigateToPath from iteration i on.  loc is the list of keys
\* that leads from the root to current: the place the returned parent
\* reference points at.
RECURSIVE Walk(_, _, _, _)
Walk(current, loc, parts, i) ==
  LET part == parts[i]
      last == (i = Len(parts))
  IN
  IF ~IsNaN(part) /\ IsArray(current)
  THEN LET arrayIndex == ParseInt(part)
           next == ArrGet(current, arrayIndex)
       IN IF last
          THEN [threw |-> FALSE, parent |-> current, loc |-> loc, key |-> NumKey(part),
                exists |-> arrayIndex >= 0 /\ arrayIndex < Len(current.v),
                value |-> next]
          ELSE IF IsNullish(next)
          THEN [threw |-> FALSE, parent |-> current, loc |-> loc, key |-> NumKey(part),
                exists |-> FALSE, value |-> Undef]
          ELSE Walk(next, Append(loc, NumKey(part)), parts, i + 1)
  ELSE LET next == GetProp(current, part)
       IN IF last
          THEN IF IsPrimitive(current)
               THEN [threw |-> TRUE]   \* TypeError: `in` on a primitive
               ELSE [threw |-> FALSE, parent |-> current, loc |-> loc, key |-> StrKey(part),
                     exists |-> ~IsNullish(current) /\ HasIn(current, part),
                     value |-> next]
          ELSE IF IsNullish(next)
          THEN [threw |-> FALSE, parent |-> current, loc |-> loc, key |-> StrKey(part),
                exists |-> FALSE, value |-> Undef]
          ELSE Walk(next, Append(loc, StrKey(part)), parts, i + 1)

RootResolution(obj) ==
  [threw |-> FALSE, parent |-> Null, loc |-> <<>>, key |-> EmptyKey,
   exists |-> TRUE, value |-> obj]

navigateToPath(obj, path) ==
  IF path = RootPath \/ path = <<>> THEN RootResolution(obj)
  ELSE IF cleanPathOf(path) = <<>> THEN RootResolution(obj)
  ELSE IF partsOf(path) = <<>>
  THEN [threw |-> FALSE, parent |-> Null, loc |-> <<>>, key |-> EmptyKey,
        exists |-> FALSE, value |-> Undef]
  ELSE Walk(obj, <<>>, partsOf(path), 1)

getValueAtPath(obj, path) ==
  LET r == navigateToPath(obj, path)
  IN IF r.threw THEN [threw |-> TRUE]
     ELSE [threw |-> FALSE, val |-> IF r.exists THEN r.value ELSE Undef]

\* ------------------------------------------------------ document mutators
\* parent[key] = value, as the two assigning branches of setValueAtPath do it
AssignKey(parent, key, value) ==
  IF IsArray(parent) /\ key.num
  THEN [parent EXCEPT !.v = SetElem(parent.v, ParseInt(key.s), value)]
  ELSE IF IsArray(parent)
  THEN [parent EXCEPT !.p = SetPair(parent.p, key.s, value)]
  ELSE IF parent.t = "object"
  THEN [parent EXCEPT !.v = SetPair(parent.v, key.s, value)]
  ELSE parent

\* parent.splice(key, 1) or delete parent[key]
DeleteKey(parent, key) ==
  IF IsArray(parent) /\ key.num
  THEN [parent EXCEPT !.v = SpliceOut(parent.v, ParseInt(key.s))]
  ELSE IF IsArray(parent)
  THEN [parent EXCEPT !.p = DeletePair(parent.p, key.s)]
  ELSE IF parent.t = "object"
  THEN [parent EXCEPT !.v = DeletePair(parent.v, key.s)]
  ELSE parent

ChildAt(x, key) == IF key.num THEN ArrGet(x, ParseInt(key.s)) ELSE GetProp(x, key.s)

\* The effect on the tree rooted at x of mutating, through the reference the
\* resolution returned, the container that loc leads to.
RECURSIVE AssignAt(_, _, _, _)
AssignAt(x, loc, key, value) ==
  IF loc = <<>> THEN AssignKey(x, key, value)
  ELSE AssignKey(x, Head(loc), AssignAt(ChildAt(x, Head(loc)), Tail(loc), key, value))

RECURSIVE DeleteAt(_, _, _)
DeleteAt(x, loc, key) ==
  IF loc = <<>> THEN DeleteKey(x, key)
  ELSE AssignKey(x, Head(loc), DeleteAt(ChildAt(x, Head(loc)), Tail(loc), key))

Threw == [threw |-> TRUE]
Ret(x) == [threw |-> FALSE, val |-> x]

setValueAtPath(obj, path, value) ==
  IF path = RootPath \/ path = <<>> THEN Ret(value)
  ELSE LET result == DeepClone(obj) IN
    IF result.threw THEN Threw
    ELSE LET r == navigateToPath(result.val, path) IN
      IF r.threw THEN Threw
      ELSE IF r.parent = Null THEN Ret(value)
      ELSE IF IsObjectLike(r.parent)
      THEN Ret(AssignAt(result.val, r.loc, r.key, value))
      ELSE Ret(result.val)

removeValueAtPath(obj, path) ==
  LET result == DeepClone(obj) IN
    IF result.threw THEN Threw
    ELSE LET r == navigateToPath(result.val, path) IN
      IF r.threw THEN Threw
      ELSE IF ~r.exists \/ r.parent = Null THEN Ret(result.val)
      ELSE IF IsObjectLike(r.parent)
      THEN Ret(DeleteAt(result.val, r.loc, r.key))
      ELSE Ret(result.val)

\* ------------------------------------------------------- string helpers
DigitChars == <<"0", "1", "2", "3", "4", "5", "6", "7", "8", "9">>
\* String(n) for an integer n
RECURSIVE NatToString(_)
NatToString(n) ==
  IF n < 10 THEN <<DigitChars[n + 1]>>
  ELSE NatToString(n \div 10) \o <<DigitChars[(n % 10) + 1]>>
IntToString(n) == IF n < 0 THEN <<"-">> \o NatToString(0 - n) ELSE NatToString(n)

\* String(x); an array is its elements joined by commas, null and undefined
\* elements giving the empty string
RECURSIVE ToStringJS(_)
RECURSIVE JoinJS(_, _)
JoinJS(es, i) ==
  IF i > Len(es) THEN <<>>
  ELSE (IF i > 1 THEN <<",">> ELSE <<>>)
       \o (IF IsNullish(es[i]) THEN <<>> ELSE ToStringJS(es[i]))
       \o JoinJS(es, i + 1)
ToStringJS(x) ==
  CASE x.t = "string" -> x.v
    [] x.t = "number" -> IntToString(x.v)
    [] x.t = "boolean" -> IF x.v THEN <<"t", "r", "u", "e">> ELSE <<"f", "a", "l", "s", "e">>
    [] x.t = "null" -> <<"n", "u", "l", "l">>
    [] x.t = "undefined" -> <<"u", "n", "d", "e", "f", "i", "n", "e", "d">>
    [] x.t = "array" -> JoinJS(x.v, 1)
    [] OTHER -> <<"[object Object]">>

\* cs.replace(pat, rep) for strings pat and rep: the first occurrence only
RECURSIVE FirstMatch(_, _, _)
FirstMatch(cs, pat, i) ==
  IF i + Len(pat) - 1 > Len(cs) THEN 0
  ELSE IF SubSeq(cs, i, i + Len(pat) - 1) = pat THEN i
  ELSE FirstMatch(cs, pat, i + 1)

\* The replacement text: in rep, "$$" stands for "$" and "$&" for the matched
\* text; any other character, a "$" before anything else included, stands
\* for itself.  (The patterns for the text before and after the match are
\* left out: no replacement drawn here holds them.)
RECURSIVE GetSubstitution(_, _, _)
GetSubstitution(rep, i, matched) ==
  IF i > Len(rep) THEN <<>>
  ELSE IF rep[i] = "$" /\ i < Len(rep) /\ rep[i + 1] \in {"$", "&"}
  THEN (IF rep[i + 1] = "$" THEN <<"$">> ELSE matched)
       \o GetSubstitution(rep, i + 2, matched)
  ELSE <<rep[i]>> \o GetSubstitution(rep, i + 1, matched)

\* ReplaceFirst with the slip of replacing every occurrence
RECURSIVE ReplaceFirst_everyOccurrence(_, _, _)
ReplaceFirst_everyOccurrence(cs, pat, rep) ==
  LET i == FirstMatch(cs, pat, 1) IN
  IF i = 0 \/ pat = <<>> THEN cs
  ELSE SubSeq(cs, 1, i - 1) \o GetSubstitution(rep, 1, pat)
       \o ReplaceFirst_everyOccurrence(SubSeq(cs, i + Len(pat), Len(cs)), pat, rep)

ReplaceFirst(cs, pat, rep) ==
  LET i == FirstMatch(cs, pat, 1) IN
  IF i = 0 THEN cs
  ELSE SubSeq(cs, 1, i - 1) \o GetSubstitution(rep, 1, pat)
       \o SubSeq(cs, i + Len(pat), Len(cs))

\* Number(x): nan, or the number n.  A string is a number when it is empty (0)
\* or all digits; an array goes by its string form.
RECURSIVE DigitsValue(_, _)
DigitsValue(cs, i) ==
  IF i = 0 THEN 0
  ELSE 10 * DigitsValue(cs, i - 1)
       + ((CHOOSE d \in DOMAIN DigitChars : DigitChars[d] = cs[i]) - 1)
NaN == [nan |-> TRUE]
Finite(n) == [nan |-> FALSE, n |-> n]
StringToNumber(cs) ==
  IF \A i \in DOMAIN cs : \E d \in DOMAIN DigitChars : DigitChars[d] = cs[i]
  THEN Finite(DigitsValue(cs, Len(cs)))
  ELSE NaN
ToNumberJS(x) ==
  CASE x.t = "number" -> Finite(x.v)
    [] x.t = "null" -> Finite(0)
    [] x.t = "boolean" -> Finite(IF x.v THEN 1 ELSE 0)
    [] x.t = "string" -> StringToNumber(x.v)
    [] x.t = "array" -> StringToNumber(ToStringJS(x))
    [] OTHER -> NaN

\* The property name x stands for as the left operand of `in`.  A name of
\* several characters is no name of any document drawn here.
ToPropertyKey(x) ==
  LET cs == ToStringJS(x) IN
  IF cs = <<>> THEN "" ELSE IF Len(cs) = 1 THEN cs[1] ELSE "(other)"

\* typeof x, with Array.isArray(x) taking precedence
TypeOf(x) ==
  CASE x.t = "array" -> "array"
    [] x.t \in {"null", "object"} -> "object"
    [] OTHER -> x.t

\* arr.includes(x): primitives compare by value; an object or array passed
\* in is a fresh value and identical to no element
Includes(es, x) ==
  /\ ~IsObjectLike(x) /\ x.t # "function"
  /\ \E i \in DOMAIN es : es[i] = x

\* ------------------------------------------------------------ tool calls
\* What a handler does to the host: wrote says whether updateContent ran,
\* text is what it handed to setFileContent and setCode, resp is the value
\* the promise resolved to (Rejected when the handler threw).
Rejected == [rejected |-> TRUE]
NoWrite(resp) == [wrote |-> FALSE, resp |-> resp]
updateContent(newData, resp) ==
  [wrote |-> TRUE, text |-> stringifyJson(newData), resp |-> resp]

ParseFailure(parsed) == [rejected |-> FALSE, success |-> FALSE, error |-> <<parsed.error>>]

get_value(text, params) ==
  LET parsed == parseJson(text) IN
  IF ~parsed.success THEN NoWrite(ParseFailure(parsed))
  ELSE LET r == navigateToPath(parsed.data, params.path) IN
    IF r.threw THEN NoWrite(Rejected)
    ELSE NoWrite([rejected |-> FALSE, success |-> TRUE, path |-> params.path,
                  value |-> r.value,
                  message |-> IF r.exists THEN <<"Value retrieved">>
                              ELSE <<"Path does not exist">>,
                  operation |-> "get"])

set_value(text, params) ==
  LET parsed == parseJson(text) IN
  IF ~parsed.success THEN NoWrite(ParseFailure(parsed))
  ELSE LET r == navigateToPath(parsed.data, params.path) IN
    IF r.threw THEN NoWrite(Rejected)
    ELSE LET newData == setValueAtPath(parsed.data, params.path, params.value) IN
      IF newData.threw THEN NoWrite(Rejected)
      ELSE updateContent(newData.val,
             [rejected |-> FALSE, success |-> TRUE, path |-> params.path,
              value |-> params.value,
              oldValue |-> IF r.exists THEN r.value ELSE Undef,
              message |-> IF r.exists THEN <<"Value updated">> ELSE <<"Value created">>,
              operation |-> "set"])

\* copy_value with the slip of taking the value out of its source, as a move
\* would
copy_value_removesSource(text, params) ==
  LET parsed == parseJson(text) IN
  IF ~parsed.success THEN NoWrite(ParseFailure(parsed))
  ELSE LET r == navigateToPath(parsed.data, params.from) IN
    IF r.threw THEN NoWrite(Rejected)
    ELSE IF ~r.exists
    THEN NoWrite([rejected |-> FALSE, success |-> FALSE,
                  error |-> <<"Source path does not exist: ">> \o params.from])
    ELSE LET removed == removeValueAtPath(parsed.data, params.from)
             cloned == DeepClone(r.value) IN
      IF removed.threw \/ cloned.threw THEN NoWrite(Rejected)
      ELSE LET newData == setValueAtPath(removed.val, params.to, cloned.val) IN
        IF newData.threw THEN NoWrite(Rejected)
        ELSE updateContent(newData.val,
               [rejected |-> FALSE, success |-> TRUE,
                message |-> <<"Value copied from ">> \o params.from \o <<" to ">> \o params.to,
                value |-> r.value, operation |-> "copy"])

copy_value(text, params) ==
  LET parsed == parseJson(text) IN
  IF ~parsed.success THEN NoWrite(ParseFailure(parsed))
  ELSE LET r == navigateToPath(parsed.data, params.from) IN
    IF r.threw THEN NoWrite(Rejected)
    ELSE IF ~r.exists
    THEN NoWrite([rejected |-> FALSE, success |-> FALSE,
                  error |-> <<"Source path does not exist: ">> \o params.from])
    ELSE LET cloned == DeepClone(r.value) IN
      IF cloned.threw THEN NoWrite(Rejected)
      ELSE LET newData == setValueAtPath(parsed.data, params.to, cloned.val) IN
        IF newData.threw THEN NoWrite(Rejected)
        ELSE updateContent(newData.val,
               [rejected |-> FALSE, success |-> TRUE,
                message |-> <<"Value copied from ">> \o params.from \o <<" to ">> \o params.to,
                value |-> r.value, operation |-> "copy"])

remove_value(text, params) ==
  LET parsed == parseJson(text) IN
  IF ~parsed.success THEN NoWrite(ParseFailure(parsed))
  ELSE LET r == navigateToPath(parsed.data, params.path) IN
    IF r.threw THEN NoWrite(Rejected)
    ELSE IF ~r.exists
    THEN NoWrite([rejected |-> FALSE, success |-> FALSE,
                  error |-> <<"Path does not exist: ">> \o params.path,
                  path |-> params.path])
    ELSE LET newData == removeValueAtPath(parsed.data, params.path) IN
      IF newData.threw THEN NoWrite(Rejected)
      ELSE updateContent(newData.val,
             [rejected |-> FALSE, success |-> TRUE, path |-> params.path,
              oldValue |-> r.value, message |-> <<"Value removed">>,
              operation |-> "remove"])

\* move_value with the slip of leaving the value at its source
move_value_keepsSource(text, params) == copy_value(text, params)

move_value(text, params) ==
  LET parsed == parseJson(text) IN
  IF ~parsed.success THEN NoWrite(ParseFailure(parsed))
  ELSE LET r == navigateToPath(parsed.data, params.from) IN
    IF r.threw THEN NoWrite(Rejected)
    ELSE IF ~r.exists
    THEN NoWrite([rejected |-> FALSE, success |-> FALSE,
                  error |-> <<"Source path does not exist: ">> \o params.from])
    ELSE LET removed == removeValueAtPath(parsed.data, params.from) IN
      IF removed.threw THEN NoWrite(Rejected)
      ELSE LET newData == setValueAtPath(removed.val, params.to, r.value) IN
        IF newData.threw THEN NoWrite(Rejected)
        ELSE updateContent(newData.val,
               [rejected |-> FALSE, success |-> TRUE,
                message |-> <<"Value moved from ">> \o params.from \o <<" to ">> \o params.to,
                value |-> r.value, operation |-> "move"])

add_value(text, params) ==
  LET parsed == parseJson(text) IN
  IF ~parsed.success THEN NoWrite(ParseFailure(parsed))
  ELSE LET target == getValueAtPath(parsed.data, params.path) IN
    IF target.threw THEN NoWrite(Rejected)
    ELSE IF IsNullish(target.val)
    THEN NoWrite([rejected |-> FALSE, success |-> FALSE,
                  error |-> <<"Target path does not exist: ">> \o params.path])
    ELSE IF IsArray(target.val)
    THEN LET newArray ==
               IF ~IsNullish(params.index) /\ params.index.v >= 0
                  /\ params.index.v <= Len(target.val.v)
               THEN Arr(SpliceIn(target.val.v, params.index.v, params.value))
               ELSE Arr(Append(target.val.v, params.value))
             newData == setValueAtPath(parsed.data, params.path, newArray)
         IN IF newData.threw THEN NoWrite(Rejected)
            ELSE updateContent(newData.val,
                   [rejected |-> FALSE, success |-> TRUE, path |-> params.path,
                    value |-> params.value,
                    message |-> <<"Value added to array">>
                                \o (IF ~IsNullish(params.index)
                                    THEN <<" at index ">> \o ToStringJS(params.index)
                                    ELSE <<>>),
                    operation |-> "add"])
    ELSE IF target.val.t = "object"
    THEN IF IsNullish(params.key) \/ params.key = Str(<<>>)
         THEN NoWrite([rejected |-> FALSE, success |-> FALSE,
                       error |-> <<"Key is required when adding to an object">>])
         ELSE LET newObject == Obj(SetPair(target.val.v, ToPropertyKey(params.key),
                                           params.value))
                  newData == setValueAtPath(parsed.data, params.path, newObject)
              IN IF newData.threw THEN NoWrite(Rejected)
                 ELSE updateContent(newData.val,
                        [rejected |-> FALSE, success |-> TRUE, path |-> params.path,
                         value |-> params.value,
                         message |-> <<"Value added with key \"">> \o params.key.v
                                     \o <<"\"">>,
                         operation |-> "add"])
    ELSE NoWrite([rejected |-> FALSE, success |-> FALSE,
                  error |-> <<"Target must be an array or object">>])

replace_value(text, params) ==
  LET parsed == parseJson(text) IN
  IF ~parsed.success THEN NoWrite(ParseFailure(parsed))
  ELSE LET r == navigateToPath(parsed.data, params.path) IN
    IF r.threw THEN NoWrite(Rejected)
    ELSE IF ~r.exists
    THEN NoWrite([rejected |-> FALSE, success |-> FALSE,
                  error |-> <<"Path does not exist: ">> \o params.path])
    ELSE LET currentValue == r.value
             newValue ==
               IF currentValue.t = "string" /\ ~IsNullish(params.oldValue)
               THEN Str(ReplaceFirst(currentValue.v, ToStringJS(params.oldValue),
                                     ToStringJS(params.newValue)))
               ELSE params.newValue
             newData == setValueAtPath(parsed.data, params.path, newValue)
         IN IF newData.threw THEN NoWrite(Rejected)
            ELSE updateContent(newData.val,
                   [rejected |-> FALSE, success |-> TRUE, path |-> params.path,
                    oldValue |-> currentValue, value |-> newValue,
                    message |-> <<"Value replaced">>, operation |-> "replace"])

\* ---- transform_value
\* toUpperCase / toLowerCase, character by character, on the letters the
\* documents hold; every other character is left as it is
Letters == << <<"a", "A">>, <<"b", "B">>, <<"s", "S">>, <<"t", "T">>, <<"u", "U">> >>
UpperChar(c) ==
  IF \E i \in DOMAIN Letters : Letters[i][1] = c
  THEN Letters[CHOOSE i \in DOMAIN Letters : Letters[i][1] = c][2] ELSE c
LowerChar(c) ==
  IF \E i \in DOMAIN Letters : Letters[i][2] = c
  THEN Letters[CHOOSE i \in DOMAIN Letters : Letters[i][2] = c][1] ELSE c
toUpperCase(cs) == [i \in DOMAIN cs |-> UpperChar(cs[i])]
toLowerCase(cs) == [i \in DOMAIN cs |-> LowerChar(cs[i])]

\* params.value || 1 for a number or nothing: nothing and 0 give 1
OrOne(pv) == IF pv.t = "number" /\ pv.v # 0 THEN pv.v ELSE 1

\* n / d for integers n >= 0, d > 0: an integer when d divides n, else the
\* fraction in lowest terms
RECURSIVE GCD(_, _)
GCD(m, n) == IF n = 0 THEN m ELSE GCD(n, m % n)
Quotient(n, d) ==
  IF n % d = 0 THEN Num(n \div d)
  ELSE [t |-> "number", v |-> n \div GCD(n, d), over |-> d \div GCD(n, d)]

\* The order of arr.sort() without a comparator: by string form, character
\* code by character code.  SortChars lists the characters of the string
\* forms of the documents' array elements by rising code.
SortChars == <<",", "-", "0", "1", "2", "3", "4", "5", "6", "7", "8", "9",
               "S", "[object Object]", "l", "n", "s", "t", "u">>
CharRank(c) == CHOOSE i \in DOMAIN SortChars : SortChars[i] = c
RECURSIVE StringLess(_, _, _)
StringLess(xs, ys, i) ==
  IF i > Len(ys) THEN FALSE
  ELSE IF i > Len(xs) THEN TRUE
  ELSE IF xs[i] = ys[i] THEN StringLess(xs, ys, i + 1)
  ELSE CharRank(xs[i]) < CharRank(ys[i])
\* x goes before y (undefined goes last)
SortsBefore(x, y) ==
  IF x.t = "undefined" THEN FALSE
  ELSE IF y.t = "undefined" THEN TRUE
  ELSE StringLess(ToStringJS(x), ToStringJS(y), 1)
\* x put into the sorted es, after the elements it does not go before (the
\* sort is stable)
RECURSIVE InsertSorted(_, _, _)
InsertSorted(es, x, i) ==
  IF i > Len(es) \/ SortsBefore(x, es[i])
  THEN SubSeq(es, 1, i - 1) \o <<x>> \o SubSeq(es, i, Len(es))
  ELSE InsertSorted(es, x, i + 1)
RECURSIVE SortJS(_, _)
SortJS(es, n) ==
  IF n = 0 THEN <<>> ELSE InsertSorted(SortJS(es, n - 1), es[n], 1)

ReverseJS(es) == [i \in DOMAIN es |-> es[Len(es) + 1 - i]]

\* [...new Set(es)]: the first of equal primitives stays; objects and arrays
\* of a parsed document are all distinct
RECURSIVE UniqueJS(_, _)
UniqueJS(es, n) ==
  IF n = 0 THEN <<>>
  ELSE LET before == UniqueJS(es, n - 1) IN
       IF ~IsObjectLike(es[n]) /\ (\E i \in 1..(n - 1) : es[i] = es[n])
       THEN before ELSE Append(before, es[n])

\* es.flat(depth)
RECURSIVE FlatJS(_, _, _)
FlatJS(es, depth, i) ==
  IF i > Len(es) THEN <<>>
  ELSE (IF IsArray(es[i]) /\ depth > 0 THEN FlatJS(es[i].v, depth - 1, 1)
        ELSE <<es[i]>>)
       \o FlatJS(es, depth, i + 1)

\* The switch of transform_value: the new value, or the message of the
\* error thrown.
Transformed(val) == [threw |-> FALSE, val |-> val]
\* TransformError with the slip of a catch clause that goes on with null
TransformError_swallowed(message) == [threw |-> FALSE, val |-> Null]

TransformError(message) == [threw |-> TRUE, message |-> message]
Transform(operation, currentValue, pv) ==
  LET MustBe(type, result) ==
        IF TypeOf(currentValue) # type
        THEN TransformError(<<"Value must be ", (IF type = "array" THEN "an " ELSE "a "), type>>)
        ELSE result
  IN CASE operation = "uppercase" ->
            MustBe("string", Transformed(Str(toUpperCase(currentValue.v))))
       [] operation = "lowercase" ->
            MustBe("string", Transformed(Str(toLowerCase(currentValue.v))))
       [] operation = "increment" ->
            MustBe("number", Transformed(Num(currentValue.v + OrOne(pv))))
       [] operation = "decrement" ->
            MustBe("number", Transformed(Num(currentValue.v - OrOne(pv))))
       [] operation = "multiply" ->
            MustBe("number", Transformed(Num(currentValue.v * OrOne(pv))))
       [] operation = "divide" ->
            MustBe("number",
                   IF pv = Num(0) THEN TransformError(<<"Cannot divide by zero">>)
                   ELSE Transformed(Quotient(currentValue.v, OrOne(pv))))
       [] operation = "sort" ->
            MustBe("array", Transformed(Arr(SortJS(currentValue.v, Len(currentValue.v)))))
       [] operation = "reverse" ->
            MustBe("array", Transformed(Arr(ReverseJS(currentValue.v))))
       [] operation = "unique" ->
            MustBe("array", Transformed(Arr(UniqueJS(currentValue.v, Len(currentValue.v)))))
       [] operation = "flatten" ->
            MustBe("array", Transformed(Arr(FlatJS(currentValue.v, OrOne(pv), 1))))
       [] OTHER -> TransformError(<<"Unknown operation: ", operation>>)

transform_value(text, params) ==
  LET parsed == parseJson(text) IN
  IF ~parsed.success THEN NoWrite(ParseFailure(parsed))
  ELSE LET r == navigateToPath(parsed.data, params.path) IN
    IF r.threw THEN NoWrite(Rejected)
    ELSE IF ~r.exists
    THEN NoWrite([rejected |-> FALSE, success |-> FALSE,
                  error |-> <<"Path does not exist: ">> \o params.path])
    ELSE LET t == Transform(params.operation, r.value, params.value) IN
      IF t.threw
      THEN NoWrite([rejected |-> FALSE, success |-> FALSE, error |-> t.message])
      ELSE LET newData == setValueAtPath(parsed.data, params.path, t.val) IN
        IF newData.threw THEN NoWrite(Rejected)
        ELSE updateContent(newData.val,
               [rejected |-> FALSE, success |-> TRUE, path |-> params.path,
                oldValue |-> r.value, value |-> t.val,
                message |-> <<"Transformed with ", params.operation>>,
                operation |-> "transform"])

\* read_json with the slip of writing back the document it parsed
read_json_writesBack(text) ==
  LET parsed == parseJson(text) IN
  IF ~parsed.success THEN NoWrite(ParseFailure(parsed))
  ELSE updateContent(parsed.data,
         [rejected |-> FALSE, success |-> TRUE, content |-> parsed.data,
          message |-> <<"JSON content read successfully">>])

read_json(text) ==
  LET parsed == parseJson(text) IN
  IF ~parsed.success THEN NoWrite(ParseFailure(parsed))
  ELSE NoWrite([rejected |-> FALSE, success |-> TRUE, content |-> parsed.data,
                message |-> <<"JSON content read successfully">>])

\* A condition or a type tag is a string of one word.
Word(w) == Str(<<w>>)

\* The switch of test_value: the test's result and its message, for the
\* resolution r of the path and the params' value pv.
TestOutcome(condition, r, pv) ==
  LET exists == r.exists
      value == r.value
      Told(testResult, yes, no) ==
        [testResult |-> testResult, message |-> IF testResult THEN yes ELSE no]
  IN CASE condition = "exists" ->
            Told(exists, <<"Path exists">>, <<"Path does not exist">>)
       [] condition = "equals" ->
            Told(exists /\ stringifyJson(value) = stringifyJson(pv),
                 <<"Values are equal">>, <<"Values are not equal">>)
       [] condition = "type" ->
            LET actualType == TypeOf(value) IN
            Told(exists /\ pv = Word(actualType),
                 <<"Type is ">> \o ToStringJS(pv),
                 <<"Type is ", actualType, ", not ">> \o ToStringJS(pv))
       [] condition = "greater" ->
            Told(exists /\ value.t = "number" /\ ~ToNumberJS(pv).nan
                   /\ value.v > ToNumberJS(pv).n,
                 ToStringJS(value) \o <<" > ">> \o ToStringJS(pv),
                 ToStringJS(value) \o <<" <= ">> \o ToStringJS(pv))
       [] condition = "less" ->
            Told(exists /\ value.t = "number" /\ ~ToNumberJS(pv).nan
                   /\ value.v < ToNumberJS(pv).n,
                 ToStringJS(value) \o <<" < ">> \o ToStringJS(pv),
                 ToStringJS(value) \o <<" >= ">> \o ToStringJS(pv))
       [] condition = "contains" ->
            IF IsArray(value)
            THEN Told(Includes(value.v, pv),
                      <<"Array contains value">>, <<"Array does not contain value">>)
            ELSE IF value.t = "string"
            THEN Told(FirstMatch(value.v, ToStringJS(pv), 1) # 0,
                      <<"String contains substring">>,
                      <<"String does not contain substring">>)
            ELSE IF value.t = "object"
            THEN Told(HasIn(value, ToPropertyKey(pv)),
                      <<"Object has key">>, <<"Object does not have key">>)
            ELSE Told(FALSE, <<>>, <<>>)
       [] OTHER -> Told(FALSE, <<>>, <<>>)

test_value(text, params) ==
  LET parsed == parseJson(text) IN
  IF ~parsed.success THEN NoWrite(ParseFailure(parsed))
  ELSE LET r == navigateToPath(parsed.data, params.path) IN
    IF r.threw THEN NoWrite(Rejected)
    ELSE LET condition == IF params.condition.t = "string" /\ params.condition.v # <<>>
                          THEN params.condition.v[1] ELSE "exists"
             t == TestOutcome(condition, r, params.value)
         IN NoWrite([rejected |-> FALSE, success |-> t.testResult,
                     path |-> params.path,
                     value |-> IF r.exists THEN r.value ELSE Undef,
                     message |-> t.message, operation |-> "test"])

\* ---------------------------------------------------------- batch executor
\* String(x), for the values a batch hands to String.prototype.replace
\* A step's `from` is optional: undefined or a string.  Resolving undefined
\* throws (path.startsWith on undefined).
getValueAtOptional(obj, from) ==
  IF from.t # "string" THEN Threw ELSE getValueAtPath(obj, from.v)
removeValueAtOptional(obj, from) ==
  IF from.t # "string" THEN Threw ELSE removeValueAtPath(obj, from.v)

StepOk(data, outcome) == [data |-> data, outcome |-> outcome]
\* the catch clause: data keeps whatever the step had assigned before it threw
StepThrew(data, op) ==
  [data |-> data, outcome |-> [success |-> FALSE, op |-> op.op, error |-> <<"exception">>]]

\* One iteration of the loop of batch_operations on the running document.
BatchStep(data, op) ==
  CASE op.op = "set" ->
         LET d == setValueAtPath(data, op.path, op.value) IN
         IF d.threw THEN StepThrew(data, op)
         ELSE StepOk(d.val, [success |-> TRUE, op |-> "set", path |-> op.path])
    [] op.op = "remove" ->
         LET d == removeValueAtPath(data, op.path) IN
         IF d.threw THEN StepThrew(data, op)
         ELSE StepOk(d.val, [success |-> TRUE, op |-> "remove", path |-> op.path])
    [] op.op = "move" ->
         LET moveValue == getValueAtOptional(data, op.from) IN
         IF moveValue.threw THEN StepThrew(data, op)
         ELSE LET removed == removeValueAtOptional(data, op.from) IN
           IF removed.threw THEN StepThrew(data, op)
           ELSE LET d == setValueAtPath(removed.val, op.path, moveValue.val) IN
             IF d.threw THEN StepThrew(removed.val, op)
             ELSE StepOk(d.val, [success |-> TRUE, op |-> "move",
                                 from |-> op.from, to |-> op.path])
    [] op.op = "copy" ->
         LET copyValue == getValueAtOptional(data, op.from) IN
         IF copyValue.threw THEN StepThrew(data, op)
         ELSE LET cloned == DeepClone(copyValue.val) IN
           IF cloned.threw THEN StepThrew(data, op)
           ELSE LET d == setValueAtPath(data, op.path, cloned.val) IN
             IF d.threw THEN StepThrew(data, op)
             ELSE StepOk(d.val, [success |-> TRUE, op |-> "copy",
                                 from |-> op.from, to |-> op.path])
    [] op.op = "add" ->
         LET target == getValueAtPath(data, op.path) IN
         IF target.threw THEN StepThrew(data, op)
         ELSE IF IsArray(target.val)
         THEN LET newArray ==
                    IF op.index.t = "number" /\ op.index.v >= 0
                       /\ op.index.v <= Len(target.val.v)
                    THEN Arr(SpliceIn(target.val.v, op.index.v, op.value))
                    ELSE Arr(Append(target.val.v, op.value))
                  d == setValueAtPath(data, op.path, newArray)
              IN IF d.threw THEN StepThrew(data, op)
                 ELSE StepOk(d.val, [success |-> TRUE, op |-> "add", path |-> op.path])
         ELSE LET d == setValueAtPath(data, op.path, op.value) IN
              IF d.threw THEN StepThrew(data, op)
              ELSE StepOk(d.val, [success |-> TRUE, op |-> "add", path |-> op.path,
                                  note |-> <<"Used set for non-array target">>])
    [] op.op = "replace" ->
         LET currentVal == getValueAtPath(data, op.path) IN
         IF currentVal.threw THEN StepThrew(data, op)
         ELSE LET newVal ==
                    IF currentVal.val.t = "string" /\ ~IsNullish(op.from)
                    THEN Str(ReplaceFirst(currentVal.val.v, ToStringJS(op.from),
                                          ToStringJS(op.value)))
                    ELSE op.value
                  d == setValueAtPath(data, op.path, newVal)
              IN IF d.threw THEN StepThrew(data, op)
                 ELSE StepOk(d.val, [success |-> TRUE, op |-> "replace", path |-> op.path])
    [] OTHER ->
         StepOk(data, [success |-> FALSE, op |-> op.op, error |-> <<"Unknown operation">>])

\* BatchResponse with the slip of reporting the failed steps only
BatchResponse_failuresOnly(operations, results) ==
  [rejected |-> FALSE, success |-> TRUE,
   message |-> <<"Executed ", DigitChars[Len(operations) + 1], " operations">>,
   content |-> SelectSeq(results, LAMBDA r : ~r.success), operation |-> "batch"]

BatchResponse(operations, results) ==
  [rejected |-> FALSE, success |-> TRUE,
   message |-> <<"Executed ", DigitChars[Len(operations) + 1], " operations">>,
   content |-> results, operation |-> "batch"]

\* ------------------------------------------------------------------ inputs
PathWords == {"a", "b", "0", "1"}

RECURSIVE Render(_, _)
Render(parts, i) ==
  IF i > Len(parts) THEN <<>>
  ELSE (IF IsNaN(parts[i]) THEN <<".", parts[i]>> ELSE <<"[", parts[i], "]">>)
       \o Render(parts, i + 1)

\* "$", "$.a", "$[0]", "$.a[1]", "$.a.b", ...
PathTo(parts) == <<"$">> \o Render(parts, 1)
Paths == {PathTo(parts) : parts \in UNION {[1..n -> PathWords] : n \in 0..MaxDepth}}

ST == Str(<<"s", "t">>)
Doc1 == Obj(<< <<"a", Obj(<< <<"a", Num(1)>>, <<"b", ST>> >>)>>,
               <<"b", Arr(<<Num(1), Num(2)>>)>> >>)
Doc2 == Obj(<< <<"a", Arr(<<Obj(<< <<"a", Num(1)>> >>), Null>>)>>, <<"b", Null>> >>)
Doc3 == Arr(<<Num(1), Arr(<<Num(2), Num(3)>>)>>)
Doc4 == Obj(<<>>)
Doc5 == Obj(<< <<"0", Num(1)>>, <<"a", ST>> >>)
Doc6 == Arr(<<>>)
Doc7 == Obj(<< <<"a", Str(<<"t", "S", "t">>)>>, <<"b", Arr(<<Num(2), Num(1), Num(2)>>)>> >>)
InitDocs == {Doc1, Doc2, Doc3, Doc4, Doc5, Doc6, Doc7, ST, Null}
\* the store holds a document, text that is not JSON, or (after a call wrote
\* a document that has no serialization) undefined
InitTexts == {JsonText(d) : d \in InitDocs} \cup {GarbageText, UndefinedText}

Values == {Num(7), Str(<<"u">>), Null, Obj(<< <<"b", Num(8)>> >>), Arr(<<Num(9)>>)}

\* add_value's key and index: left out, in and out of the array's range, an
\* index below zero, a key that is new, one that is an index word, and the
\* empty key
AddCase(key, index) == [key |-> key, index |-> index]
AddCases ==
  {AddCase(Undef, Undef), AddCase(Str(<<"b">>), Undef), AddCase(Str(<<"1">>), Undef),
   AddCase(Str(<<>>), Undef), AddCase(Str(<<"a">>), Num(0))}
  \cup {AddCase(Undef, Num(i)) : i \in {0 - 1, 0, 1, 3}}
AddedValues == {Num(7), Null, Arr(<<Num(9)>>)}

\* replace_value's oldValue (left out, occurring, not occurring) and newValue
\* (of several types, and one that holds a replacement pattern)
OldValues == {Undef, Str(<<"t">>), Str(<<"u">>)}
NewValues == {Num(7), Str(<<"u">>), Null, Str(<<"$", "&", "u">>)}

\* transform_value's operation and value: every operation, one that is none,
\* and for those that take a number: none, 0 and 2
TransformCase(operation, value) == [operation |-> operation, value |-> value]
TransformCases ==
  {TransformCase(o, Undef) :
     o \in {"uppercase", "lowercase", "sort", "reverse", "unique", "capitalize"}}
  \cup {TransformCase(o, v) :
          o \in {"increment", "decrement", "multiply", "divide", "flatten"},
          v \in {Undef, Num(0), Num(2)}}

\* test_value's condition and value: every condition with values that make
\* it pass and fail, the condition left out, and one that is no condition
TypeTags == {"string", "number", "boolean", "object", "array", "null"}
TestCase(condition, value) == [condition |-> condition, value |-> value]
TestCases ==
  {TestCase(Undef, Undef), TestCase(Word("exists"), Undef), TestCase(Word("matches"), Undef)}
  \cup {TestCase(Word("equals"), v) : v \in {Num(1), ST, Null, Undef, Arr(<<Num(1), Num(2)>>)}}
  \cup {TestCase(Word("type"), Word(tag)) : tag \in TypeTags}
  \cup {TestCase(Word(c), v) : c \in {"greater", "less"}, v \in {Num(0), Num(1), Undef}}
  \cup {TestCase(Word("contains"), v) : v \in {Num(1), Str(<<"t">>), Str(<<"a">>), Null}}

Op(kind, path, value) ==
  [op |-> kind, path |-> path, value |-> value, from |-> Undef, index |-> Undef]
OpFrom(kind, from, path) ==
  [op |-> kind, path |-> path, value |-> Undef, from |-> Str(from), index |-> Undef]
BatchOps ==
  { Op("set", PathTo(<<"a">>), Num(7)),
    Op("set", PathTo(<<"b", "a">>), Str(<<"u">>)),
    Op("remove", PathTo(<<"a">>), Undef),
    Op("remove", PathTo(<<"b", "0">>), Undef),
    OpFrom("move", PathTo(<<"a">>), PathTo(<<"b">>)),
    OpFrom("move", PathTo(<<"b">>), PathTo(<<"a", "b">>)),
    OpFrom("move", PathTo(<<"a", "a">>), PathTo(<<"a", "b", "a">>)),
    Op("move", PathTo(<<"a">>), Undef),
    OpFrom("copy", PathTo(<<"a">>), PathTo(<<"b">>)),
    OpFrom("copy", PathTo(<<"b", "1">>), PathTo(<<"a">>)),
    [Op("add", PathTo(<<"b">>), Num(7)) EXCEPT !.index = Num(0)],
    Op("add", PathTo(<<"b">>), Num(7)),
    Op("add", PathTo(<<"a">>), Str(<<"u">>)),
    [Op("replace", PathTo(<<"a", "b">>), Str(<<"u">>)) EXCEPT !.from = Str(<<"t">>)],
    Op("replace", PathTo(<<"a">>), Num(7)),
    Op("test", PathTo(<<"a">>), Undef) }
Batches == UNION {[1..n -> BatchOps] : n \in 0..MaxOps}

\* ------------------------------------------------------------------- state
VARIABLES
  fileContent,   \* the host's document text (the state behind setFileContent)
  fileContentRef,\* fileContentRef.current: what getFileContent() returns
  code,          \* the editor's text, written together with fileContent
  pc,            \* "idle": no call yet; "batch": inside the loop of
                 \* batch_operations; "returned": the call has settled
  call,          \* the tool called and its params
  content,       \* the handler's local `content`: the text it read
  resp,          \* what the call's promise settled to
  data,          \* batch_operations: the running document
  results,       \* batch_operations: the outcomes pushed so far
  idx,           \* batch_operations: the number of steps taken
  writes,        \* the texts the call has handed to setFileContent, in order
  earlier        \* the calls that settled before the current one

vars == <<fileContent, fileContentRef, code, pc, call, content, resp, data, results,
          idx, writes, earlier>>

NoCall == [tool |-> "none"]
NoResp == [rejected |-> FALSE, success |-> FALSE, pending |-> TRUE]

Init ==
  /\ fileContent \in InitTexts
  /\ fileContentRef = fileContent
  /\ code = fileContent
  /\ pc = "idle"
  /\ call = NoCall
  /\ content = fileContent
  /\ resp = NoResp
  /\ data = Undef
  /\ results = <<>>
  /\ idx = 0
  /\ writes = <<>>
  /\ earlier = <<>>

\* A handler that runs to completion in one go.
Settle(tool, params, out) ==
  /\ pc' = "returned"
  /\ call' = [tool |-> tool, params |-> params]
  /\ content' = fileContentRef
  /\ resp' = out.resp
  /\ fileContent' = IF out.wrote THEN out.text ELSE fileContent
  /\ code' = IF out.wrote THEN out.text ELSE code
  /\ writes' = IF out.wrote THEN <<out.text>> ELSE <<>>
  /\ UNCHANGED <<data, results, idx, fileContentRef, earlier>>

GetValue ==
  /\ pc = "idle"
  /\ \E p \in Paths :
       LET params == [path |-> p] IN Settle("get_value", params, get_value(fileContentRef, params))

SetValue ==
  /\ pc = "idle"
  /\ \E p \in Paths, v \in Values :
       LET params == [path |-> p, value |-> v]
       IN Settle("set_value", params, set_value(fileContentRef, params))

RemoveValue ==
  /\ pc = "idle"
  /\ \E p \in Paths :
       LET params == [path |-> p]
       IN Settle("remove_value", params, remove_value(fileContentRef, params))

MoveValue ==
  /\ pc = "idle"
  /\ \E f \in Paths, t \in Paths :
       LET params == [from |-> f, to |-> t]
       IN Settle("move_value", params, move_value(fileContentRef, params))

CopyValue ==
  /\ pc = "idle"
  /\ \E f \in Paths, t \in Paths :
       LET params == [from |-> f, to |-> t]
       IN Settle("copy_value", params, copy_value(fileContentRef, params))

AddValue ==
  /\ pc = "idle"
  /\ \E p \in Paths, v \in AddedValues, c \in AddCases :
       LET params == [path |-> p, key |-> c.key, value |-> v, index |-> c.index]
       IN Settle("add_value", params, add_value(fileContentRef, params))

ReplaceValue ==
  /\ pc = "idle"
  /\ \E p \in Paths, old \in OldValues, new \in NewValues :
       LET params == [path |-> p, oldValue |-> old, newValue |-> new]
       IN Settle("replace_value", params, replace_value(fileContentRef, params))

TransformValue ==
  /\ pc = "idle"
  /\ \E p \in Paths, c \in TransformCases :
       LET params == [path |-> p, operation |-> c.operation, value |-> c.value]
       IN Settle("transform_value", params, transform_value(fileContentRef, params))

ReadJson ==
  /\ pc = "idle"
  /\ Settle("read_json", [none |-> TRUE], read_json(fileContentRef))

TestValue ==
  /\ pc = "idle"
  /\ \E p \in Paths, c \in TestCases :
       LET params == [path |-> p, condition |-> c.condition, value |-> c.value]
       IN Settle("test_value", params, test_value(fileContentRef, params))

\* batch_operations up to the loop: read, parse, and either return (parse
\* failure, or nothing to do and so the final write) or enter the loop.
BatchBegin ==
  /\ pc = "idle"
  /\ \E operations \in Batches :
       LET parsed == parseJson(fileContentRef) IN
       /\ call' = [tool |-> "batch_operations", params |-> [operations |-> operations]]
       /\ content' = fileContentRef
       /\ idx' = 0
       /\ UNCHANGED <<fileContentRef, earlier>>
       /\ results' = <<>>
       /\ IF ~parsed.success
          THEN /\ pc' = "returned"
               /\ resp' = ParseFailure(parsed)
               /\ UNCHANGED <<fileContent, code, data, writes>>
          ELSE IF operations = <<>>
          THEN /\ pc' = "returned"
               /\ data' = parsed.data
               /\ resp' = BatchResponse(operations, <<>>)
               /\ fileContent' = stringifyJson(parsed.data)
               /\ code' = stringifyJson(parsed.data)
               /\ writes' = <<stringifyJson(parsed.data)>>
          ELSE /\ pc' = "batch"
               /\ data' = parsed.data
               /\ resp' = NoResp
               /\ UNCHANGED <<fileContent, code, writes>>

\* BatchAdvance with the slip of calling updateContent inside the loop
BatchAdvance_writesEachStep(step, last) ==
  LET operations == call.params.operations
      outcomes == Append(results, step.outcome)
  IN /\ data' = step.data
     /\ results' = outcomes
     /\ idx' = idx + 1
     /\ fileContent' = stringifyJson(step.data)
     /\ code' = stringifyJson(step.data)
     /\ writes' = Append(writes, stringifyJson(step.data))
     /\ IF last
        THEN /\ pc' = "returned"
             /\ resp' = BatchResponse(operations, outcomes)
        ELSE /\ pc' = "batch"
             /\ UNCHANGED resp
     /\ UNCHANGED <<call, content, fileContentRef, earlier>>

\* The state change of one iteration whose step came out as step; when the
\* loop is over (last) it goes on to updateContent(data) and the return.
BatchAdvance(step, last) ==
  LET operations == call.params.operations
      outcomes == Append(results, step.outcome)
  IN /\ data' = step.data
     /\ results' = outcomes
     /\ idx' = idx + 1
     /\ IF last
        THEN /\ pc' = "returned"
             /\ resp' = BatchResponse(operations, outcomes)
             /\ fileContent' = stringifyJson(step.data)
             /\ code' = stringifyJson(step.data)
             /\ writes' = Append(writes, stringifyJson(step.data))
        ELSE /\ pc' = "batch"
             /\ UNCHANGED <<resp, fileContent, code, writes>>
     /\ UNCHANGED <<call, content, fileContentRef, earlier>>

\* BatchIterate with the slip of leaving the loop at the first failed step
BatchIterate_stopsAtFailure ==
  /\ pc = "batch"
  /\ LET step == BatchStep(data, call.params.operations[idx + 1])
     IN BatchAdvance(step, idx + 1 = Len(call.params.operations) \/ ~step.outcome.success)

\* BatchIterate with the slip of running each step on the parsed input
BatchIterate_onOriginal ==
  /\ pc = "batch"
  /\ BatchAdvance(BatchStep(parseJson(content).data, call.params.operations[idx + 1]),
                  idx + 1 = Len(call.params.operations))

\* One iteration of the loop of batch_operations.
BatchIterate ==
  /\ pc = "batch"
  /\ BatchAdvance(BatchStep(data, call.params.operations[idx + 1]),
                  idx + 1 = Len(call.params.operations))

Next ==
  \/ GetValue
  \/ SetValue
  \/ RemoveValue
  \/ MoveValue
  \/ CopyValue
  \/ AddValue
  \/ ReplaceValue
  \/ TransformValue
  \/ ReadJson
  \/ TestValue
  \/ BatchBegin
  \/ BatchIterate

Spec == Init /\ [][Next]_vars

\* ---------------------------------------------------- the host between calls
\* The host component renders again after setFileContent has changed its
\* state, and only the render copies the state into fileContentRef.current.
\* No handler awaits, so a render never falls inside a call.
App ==
  /\ pc # "batch"
  /\ fileContentRef # fileContent
  /\ fileContentRef' = fileContent
  /\ UNCHANGED <<fileContent, code, pc, call, content, resp, data, results, idx,
                 writes, earlier>>

\* The first of two calls issued one after the other: one that writes a new
\* member, one that removes a member, one that only reads.
FirstCalls ==
  { [tool |-> "set_value", params |-> [path |-> PathTo(<<"a">>), value |-> Num(7)]],
    [tool |-> "remove_value", params |-> [path |-> PathTo(<<"b">>)]],
    [tool |-> "get_value", params |-> [path |-> PathTo(<<"a">>)]] }

\* The agent, handed the tools, issues its next call once the earlier one has
\* settled; what the earlier call read and left behind is kept in earlier.
NextCall ==
  /\ pc = "returned"
  /\ earlier = <<>>
  /\ call \in FirstCalls
  /\ earlier' = <<[call |-> call, read |-> content, wrote |-> writes # <<>>,
                   text |-> fileContent]>>
  /\ pc' = "idle"
  /\ call' = NoCall
  /\ resp' = NoResp
  /\ data' = Undef
  /\ results' = <<>>
  /\ idx' = 0
  /\ writes' = <<>>
  /\ UNCHANGED <<fileContent, fileContentRef, code, content>>

HostNext ==
  \/ Next
  \/ App
  \/ NextCall

HostSpec == Init /\ [][HostNext]_vars

\* ------------------------------------------------------------------ claims
Called(tool) == pc = "returned" /\ call.tool = tool
Succeeded == ~resp.rejected /\ resp.success
\* the document the call started from
DocBefore == parseJson(content).data
\* what navigateToPath reports for path in the document of text
Resolves(text, path) ==
  /\ parseJson(text).success
  /\ ~navigateToPath(parseJson(text).data, path).threw
PathExists(text, path) ==
  /\ Resolves(text, path)
  /\ navigateToPath(parseJson(text).data, path).exists
\* the store after a further call whose outcome is out
After(text, out) == IF out.wrote THEN out.text ELSE text
\* get_value answered, and found a value / found no value
GetFound(text, path) ==
  LET g == get_value(text, [path |-> path]).resp
  IN ~g.rejected /\ g.success /\ g.message = <<"Value retrieved">>
GetValueIs(text, path, value) ==
  GetFound(text, path) /\ get_value(text, [path |-> path]).resp.value = value

\* C1: write-then-read round trip.  After set_value(P, V) on a document in
\* which P exists, get_value(P) on the written document returns exactly V.
C1_SetThenGet ==
  (Called("set_value") /\ Succeeded /\ PathExists(content, call.params.path))
    => GetValueIs(fileContent, call.params.path, call.params.value)

\* set_value overwrote an existing non-root value with a different one
C1_Witness ==
  /\ Called("set_value") /\ Succeeded
  /\ PathExists(content, call.params.path)
  /\ call.params.path # RootPath
  /\ resp.oldValue # call.params.value
  /\ fileContent # content

\* The store after set_value(P, V) (the call made) and then remove_value(P).
SetThenRemoved ==
  After(fileContent, remove_value(fileContent, [path |-> call.params.path]))

LastIsArrayIndex(text, path) ==
  /\ Resolves(text, path)
  /\ IsArray(navigateToPath(parseJson(text).data, path).parent)

IsPrefix(ps, qs) == Len(ps) <= Len(qs) /\ SubSeq(qs, 1, Len(ps)) = ps
ParentParts(path) == SubSeq(partsOf(path), 1, Len(partsOf(path)) - 1)

\* The store after copy_value(from, to) and then remove_value(from) on text.
CopyThenRemove(text, from, to) ==
  LET copied == After(text, copy_value(text, [from |-> from, to |-> to]))
  IN After(copied, remove_value(copied, [path |-> from]))

\* C3 as stated: move_value(from, to) produces the same document as
\* copy_value(from, to) followed by remove_value(from), for every destination.
C3_Original ==
  (Called("move_value") /\ Succeeded)
    => fileContent = CopyThenRemove(content, call.params.from, call.params.to)

\* Neither path leads into the other, and removing `from` does not renumber
\* an array that `to` goes through.
Apart(doc, from, to) ==
  /\ ~IsPrefix(partsOf(from), partsOf(to))
  /\ ~IsPrefix(partsOf(to), partsOf(from))
  /\ IsArray(navigateToPath(doc, from).parent)
       => ~IsPrefix(ParentParts(from), partsOf(to))

\* C3 amended: a successful move_value(from, to) produces the same document
\* as copy_value(from, to) followed by remove_value(from) when `to` is not
\* `from`, an ancestor of it or a place under it and, for `from` an array
\* element, `to` does not go through that array.
C3_MoveIsCopyThenRemove ==
  (Called("move_value") /\ Succeeded
     /\ Apart(DocBefore, call.params.from, call.params.to))
    => fileContent = CopyThenRemove(content, call.params.from, call.params.to)

\* a move between two places apart that changed the document
C3_Witness ==
  /\ Called("move_value") /\ Succeeded
  /\ Apart(DocBefore, call.params.from, call.params.to)
  /\ PathExists(fileContent, call.params.to)
  /\ ~PathExists(fileContent, call.params.from)
  /\ fileContent # content

\* what get_value(path) answers on text: whether it found a value, and which
Answer(text, path) ==
  LET g == get_value(text, [path |-> path]).resp
  IN IF g.rejected THEN <<"rejected">>
     ELSE IF ~g.success THEN <<"failed">>
     ELSE <<g.message, g.value>>

\* C4 as stated: copy_value(from, to) keeps the original for every
\* destination, the root and the ancestors of `from` included.
C4_Original ==
  (Called("copy_value") /\ Succeeded)
    => Answer(fileContent, call.params.from) = Answer(content, call.params.from)

ProperPrefix(ps, qs) == IsPrefix(ps, qs) /\ ps # qs

\* C4 amended: copy_value(from, to) keeps the original (get_value(from)
\* answers the same existence and value as before the call) for every
\* destination that is neither an ancestor of `from` (the root included) nor
\* a place under `from`.
C4_CopyKeepsOriginal ==
  (Called("copy_value") /\ Succeeded
     /\ ~ProperPrefix(partsOf(call.params.to), partsOf(call.params.from))
     /\ ~ProperPrefix(partsOf(call.params.from), partsOf(call.params.to)))
    => Answer(fileContent, call.params.from) = Answer(content, call.params.from)

\* a copy to a place apart from its source that changed the document
C4_Witness ==
  /\ Called("copy_value") /\ Succeeded
  /\ ~IsPrefix(partsOf(call.params.to), partsOf(call.params.from))
  /\ ~IsPrefix(partsOf(call.params.from), partsOf(call.params.to))
  /\ partsOf(call.params.from) # <<>>
  /\ fileContent # content
  /\ GetFound(fileContent, call.params.from)

\* C5: after a successful copy_value(from, to), `to` exists and get_value(to)
\* returns the value that was at `from` before the call, for every `to`.
C5_CopyLandsAtDestination ==
  (Called("copy_value") /\ Succeeded)
    => GetValueIs(fileContent, call.params.to,
                  navigateToPath(DocBefore, call.params.from).value)

\* the container that would hold `to` is not in the document
ParentMissing(text, to) ==
  /\ Len(partsOf(to)) >= 2
  /\ ~PathExists(text, PathTo(ParentParts(to)))

\* C6: a move_value(from, to) whose `from` exists and whose `to` has no parent
\* container reports success, removes the value from `from` and drops the
\* write: the document is the original with only `from` removed.
C6_MoveDropsOrphanWrite ==
  (Called("move_value") /\ Succeeded /\ partsOf(call.params.from) # <<>>
     /\ ParentMissing(content, call.params.to))
    => fileContent = stringifyJson(removeValueAtPath(DocBefore, call.params.from).val)

\* C7: set_value creates the path: after a successful set_value(P, V) on a
\* document in which P does not exist (last segment or ancestors missing),
\* get_value(P) returns V.
C7_SetCreatesPath ==
  (Called("set_value") /\ Succeeded /\ ~PathExists(content, call.params.path))
    => GetValueIs(fileContent, call.params.path, call.params.value)

InBatch == call.tool = "batch_operations" /\ parseJson(content).success
Operations == call.params.operations
KnownOps == {"set", "remove", "move", "copy", "add", "replace"}

\* Steps that cannot complete: an unknown kind, a move or copy without
\* `from`, a copy of a value that is not there.
MustFail(doc, op) ==
  \/ op.op \notin KnownOps
  \/ op.op \in {"move", "copy"} /\ op.from.t # "string"
  \/ op.op = "copy" /\ op.from.t = "string" /\ getValueAtPath(doc, op.from.v) = Ret(Undef)

C9_BatchRemoveMissingFails ==
  [][(pc = "batch" /\ Operations[idx + 1].op = "remove"
        /\ ~navigateToPath(data, Operations[idx + 1].path).threw
        /\ ~navigateToPath(data, Operations[idx + 1].path).exists)
       => ~results'[idx + 1].success
  ]_vars

\* the running document after the first n steps of ops on doc
RECURSIVE FoldSteps(_, _, _)
FoldSteps(doc, ops, n) ==
  IF n = 0 THEN doc
  ELSE BatchStep(FoldSteps(doc, ops, n - 1), ops[n]).data

\* C10: batch steps run in the given order on one running document: after k
\* steps it is the left-to-right fold of the first k steps over the parsed
\* input, and the document written at the end is the fold of them all.
C10_BatchIsLeftFold ==
  InBatch =>
    /\ data = FoldSteps(DocBefore, Operations, idx)
    /\ pc = "returned" =>
         (idx = Len(Operations) /\ fileContent = stringifyJson(data))

\* a batch of two steps whose second step acted on what the first had made
C10_Witness ==
  /\ Called("batch_operations") /\ InBatch
  /\ Len(Operations) >= 2
  /\ results[1].success /\ results[2].success
  /\ data # BatchStep(DocBefore, Operations[2]).data
  /\ data # BatchStep(DocBefore, Operations[1]).data
  /\ data # BatchStep(BatchStep(DocBefore, Operations[2]).data, Operations[1]).data

\* C11: batch_operations hands a text to the store exactly once, after the
\* last step, and that text is the serialization of the final document: while
\* the loop runs nothing has been written and the store still holds the text
\* read; when the text read does not parse nothing is written at all.
C11_BatchWritesOnce ==
  call.tool = "batch_operations" =>
    /\ pc = "batch" => (writes = <<>> /\ fileContent = content /\ code = content)
    /\ pc = "returned" =>
         IF parseJson(content).success
         THEN /\ idx = Len(Operations)
              /\ writes = <<stringifyJson(FoldSteps(DocBefore, Operations, idx))>>
              /\ fileContent = writes[1] /\ code = writes[1]
         ELSE writes = <<>> /\ fileContent = content /\ code = content

\* a returned batch of two steps that both changed the running document, so
\* that an intermediate document existed which differs from the one written
C11_Witness ==
  /\ Called("batch_operations") /\ InBatch
  /\ Len(Operations) = 2
  /\ FoldSteps(DocBefore, Operations, 1) # DocBefore
  /\ FoldSteps(DocBefore, Operations, 1) # data
  /\ Len(writes) = 1 /\ writes[1] # content

\* the record of step i names the step's source and destination paths
CarriesBothPaths(i) ==
  /\ {"from", "to"} \subseteq DOMAIN resp.content[i]
  /\ resp.content[i].from = Operations[i].from
  /\ resp.content[i].to = Operations[i].path

\* one record per submitted operation, in order, tagged with its kind
OneRecordPerOperation ==
  /\ Succeeded /\ resp.operation = "batch"
  /\ Len(resp.content) = Len(Operations)
  /\ \A i \in 1..Len(Operations) : resp.content[i].op = Operations[i].op

\* C12 as stated: whenever the source text parses, the batch result has
\* success true and one outcome record per submitted operation, in order,
\* each tagged with that operation's kind; the records of move and copy steps
\* carry both the source and the destination path.
C12_Original ==
  (Called("batch_operations") /\ InBatch) =>
    /\ OneRecordPerOperation
    /\ \A i \in 1..Len(Operations) :
         Operations[i].op \in {"move", "copy"} => CarriesBothPaths(i)

\* C12 amended: whenever the source text parses, the batch result has success
\* true and one outcome record per submitted operation, in order, each tagged
\* with that operation's kind; the record of a move or copy step that
\* succeeded carries both the source and the destination path, and the record
\* of a step that failed carries the kind and an error only.
C12_BatchOutcomeRecords ==
  (Called("batch_operations") /\ InBatch) =>
    /\ OneRecordPerOperation
    /\ \A i \in 1..Len(Operations) :
         IF resp.content[i].success
         THEN Operations[i].op \in {"move", "copy"} => CarriesBothPaths(i)
         ELSE DOMAIN resp.content[i] = {"success", "op", "error"}

\* a batch whose first step, a move, succeeded and whose second, a copy, failed
C12_Witness ==
  /\ Called("batch_operations") /\ InBatch
  /\ Len(Operations) = 2
  /\ Operations[1].op = "move" /\ resp.content[1].success
  /\ Operations[2].op = "copy" /\ ~resp.content[2].success

Range(f) == {f[i] : i \in DOMAIN f}
\* the tools of createJsonTools
Tools == {"read_json", "get_value", "set_value", "remove_value", "add_value",
          "replace_value", "move_value", "copy_value", "test_value",
          "transform_value", "batch_operations"}
\* the text is not a JSON document
InvalidText(text) == text.k # "json"
\* the call returned a failure carrying an error
ReturnedFailure == ~resp.rejected /\ ~resp.success /\ "error" \in DOMAIN resp
\* the call handed nothing to the store
WroteNothing == writes = <<>> /\ fileContent = content /\ code = content

\* C13: document-invalid.  Each of the eleven handlers, called when the
\* store's text is not valid JSON, returns success false with an error and
\* never invokes the write sink.
C13_InvalidDocumentFails ==
  (pc = "returned" /\ InvalidText(content)) =>
    /\ call.tool \in Tools
    /\ ReturnedFailure /\ resp.error = <<"Invalid JSON">>
    /\ WroteNothing

\* a batch of steps called on text that is not JSON
C13_Witness ==
  /\ Called("batch_operations") /\ content = GarbageText
  /\ Len(Operations) = MaxOps
  /\ ReturnedFailure /\ WroteNothing

\* the path a tool requires to exist: `from` for move and copy, else `path`
RequiredPath == IF call.tool \in {"move_value", "copy_value"} THEN call.params.from
                ELSE call.params.path

\* C14: path-not-found is never silently ignored.  remove_value,
\* replace_value and transform_value (on path) and move_value and copy_value
\* (on from) each return success false with an error, and write nothing,
\* whenever that required path does not exist in the document.
C14_MissingPathFails ==
  (/\ pc = "returned"
   /\ call.tool \in {"remove_value", "replace_value", "transform_value",
                     "move_value", "copy_value"}
   /\ ~InvalidText(content)
   /\ ~PathExists(content, RequiredPath))
    => (ReturnedFailure /\ WroteNothing)

\* add_value was called with a path that holds an array
AddToArray ==
  /\ Called("add_value") /\ ~InvalidText(content)
  /\ PathExists(content, call.params.path)
  /\ IsArray(navigateToPath(DocBefore, call.params.path).value)
\* the array add_value found, and what is at its path in the store now
ArrayBefore == navigateToPath(DocBefore, call.params.path).value.v
ValueNow == getValueAtPath(parseJson(fileContent).data, call.params.path).val
\* new is es with val put in at position pos (0-based), the later elements
\* shifted up
InsertedAt(es, pos, val, new) ==
  /\ Len(new) = Len(es) + 1
  /\ new[pos + 1] = val
  /\ \A i \in 1..Len(es) : IF i <= pos THEN new[i] = es[i] ELSE new[i + 1] = es[i]
\* the call succeeded and wrote the array with the value put in at pos
AddedAt(pos) ==
  /\ Succeeded /\ writes = <<fileContent>>
  /\ IsArray(ValueNow)
  /\ InsertedAt(ArrayBefore, pos, call.params.value, ValueNow.v)
Clamped(i, n) == IF i < 0 THEN 0 ELSE IF i > n THEN n ELSE i

\* C15 as stated: add_value on an array target with an index given inserts
\* the value at the index clamped to [0, length] (a negative index inserts at
\* position 0, an index greater than the length at the end, an in-range index
\* i at position i with later elements shifted up); with no index the value
\* is appended.
C15_Original ==
  AddToArray =>
    AddedAt(IF IsNullish(call.params.index) THEN Len(ArrayBefore)
            ELSE Clamped(call.params.index.v, Len(ArrayBefore)))

\* C15 amended: add_value on an array target puts the value at position i,
\* later elements shifted up, when the index i given is in range
\* (0 <= i <= length); with an index out of that range, below zero or above
\* the length, and with no index, the value is appended at the end.
C15_AddToArrayInsertsOrAppends ==
  AddToArray =>
    AddedAt(IF ~IsNullish(call.params.index) /\ call.params.index.v >= 0
               /\ call.params.index.v <= Len(ArrayBefore)
            THEN call.params.index.v
            ELSE Len(ArrayBefore))

\* a value inserted before the last element of an array, by its index
C15_Witness ==
  /\ AddToArray /\ Succeeded
  /\ ~IsNullish(call.params.index)
  /\ call.params.index.v > 0 /\ call.params.index.v < Len(ArrayBefore)
  /\ ValueNow.v[call.params.index.v + 1] = call.params.value

\* the value add_value's path holds in the document read
AddTarget == navigateToPath(DocBefore, call.params.path).value

\* C16: add_value returns a failure and writes nothing in exactly these cases
\* on a parsed document: the target path does not exist, the target is an
\* object and no key is supplied, or the target is neither an array nor an
\* object; in every other case it succeeds.
C16_AddFailsExactly ==
  (Called("add_value") /\ ~InvalidText(content)) =>
    IF \/ ~PathExists(content, call.params.path)
       \/ AddTarget.t = "object" /\ IsNullish(call.params.key)
       \/ AddTarget.t \notin {"array", "object"}
    THEN ReturnedFailure /\ WroteNothing
    ELSE Succeeded /\ writes = <<fileContent>>

\* replace_value was called with a path that exists
ReplaceExisting ==
  /\ Called("replace_value") /\ ~InvalidText(content)
  /\ PathExists(content, call.params.path)
CurrentValue == navigateToPath(DocBefore, call.params.path).value
\* take the substring branch: the current value is a string and oldValue is
\* supplied
SubstringCase == CurrentValue.t = "string" /\ ~IsNullish(call.params.oldValue)
\* pat occurs in cs at position i (1-based) and nowhere before
FirstAt(cs, pat, i) ==
  /\ i + Len(pat) - 1 <= Len(cs)
  /\ SubSeq(cs, i, i + Len(pat) - 1) = pat
  /\ \A j \in 1..(i - 1) : SubSeq(cs, j, j + Len(pat) - 1) # pat
Occurs(cs, pat) == \E i \in 1..(Len(cs) + 1) : FirstAt(cs, pat, i)
\* new is cs with the first occurrence of pat, and no other, replaced by rep;
\* cs itself when pat does not occur
FirstReplaced(cs, pat, rep, new) ==
  IF Occurs(cs, pat)
  THEN \E i \in 1..(Len(cs) + 1) :
         /\ FirstAt(cs, pat, i)
         /\ new = SubSeq(cs, 1, i - 1) \o rep \o SubSeq(cs, i + Len(pat), Len(cs))
  ELSE new = cs
\* the call succeeded and the path now holds v
ReplacedBy(v) ==
  /\ Succeeded /\ writes = <<fileContent>>
  /\ ValueNow = v /\ resp.value = v /\ resp.oldValue = CurrentValue

\* C17 as stated: replace_value on an existing path, when the current value
\* is a string and oldValue is supplied, makes the new value the current
\* string with only the first occurrence of oldValue replaced by newValue
\* (string unchanged if oldValue does not occur); in every other case the
\* value at the path becomes newValue.
C17_Original ==
  ReplaceExisting =>
    IF SubstringCase
    THEN /\ ValueNow.t = "string"
         /\ FirstReplaced(CurrentValue.v, ToStringJS(call.params.oldValue),
                          ToStringJS(call.params.newValue), ValueNow.v)
         /\ ReplacedBy(ValueNow)
    ELSE ReplacedBy(call.params.newValue)

\* C17 amended: as stated, except that what replaces the first occurrence is
\* the string form of newValue with the replacement patterns of the
\* language's replace expanded (among them "$$", which gives "$", and "$&",
\* which gives the text matched); a newValue that holds no "$" goes in as it
\* is.
C17_ReplaceFirstOccurrence ==
  ReplaceExisting =>
    IF SubstringCase
    THEN /\ ValueNow.t = "string"
         /\ FirstReplaced(CurrentValue.v, ToStringJS(call.params.oldValue),
                          GetSubstitution(ToStringJS(call.params.newValue), 1,
                                          ToStringJS(call.params.oldValue)),
                          ValueNow.v)
         /\ ("$" \notin Range(ToStringJS(call.params.newValue)) =>
               FirstReplaced(CurrentValue.v, ToStringJS(call.params.oldValue),
                             ToStringJS(call.params.newValue), ValueNow.v))
         /\ ReplacedBy(ValueNow)
    ELSE ReplacedBy(call.params.newValue)

\* a string in which oldValue occurs twice: the first occurrence was replaced
\* and the second is still there
C17_Witness ==
  /\ ReplaceExisting /\ SubstringCase /\ Succeeded
  /\ \E i, j \in 1..Len(CurrentValue.v) :
       /\ i < j
       /\ FirstAt(CurrentValue.v, ToStringJS(call.params.oldValue), i)
       /\ SubSeq(CurrentValue.v, j, Len(CurrentValue.v)) = ToStringJS(call.params.oldValue)
       /\ SubSeq(ValueNow.v, Len(ValueNow.v), Len(ValueNow.v)) = ToStringJS(call.params.oldValue)
  /\ ValueNow # CurrentValue

\* test_value was called on a parsed document with the given condition
Tested(condition) ==
  /\ Called("test_value") /\ ~InvalidText(content)
  /\ call.params.condition = Word(condition)
\* the JSON type tag of a document value
JsonTypeTag(x) == x.t

\* C18: test_value with condition `type` succeeds exactly when the path
\* exists and the supplied tag equals the value's JSON type tag among "array",
\* "object", "string", "number", "boolean", "null"; in particular a null
\* value matches "null" and not "object", an array "array" and not "object".
C18_TypeTestMatchesJsonType ==
  Tested("type") =>
    (Succeeded <=>
       /\ PathExists(content, call.params.path)
       /\ call.params.value =
            Word(JsonTypeTag(navigateToPath(DocBefore, call.params.path).value)))

\* the conditions test_value knows
Conditions == {"exists", "equals", "type", "greater", "less", "contains"}

\* C19: test_value never throws.  For every parsed document, every path (one
\* whose segments continue past a string, number or boolean included), every
\* condition and every comparison value it returns a result record, and
\* malformed or inapplicable inputs yield success false.
C19_TestNeverThrows ==
  (Called("test_value") /\ ~InvalidText(content)) =>
    /\ ~resp.rejected
    /\ resp.operation = "test"
    /\ (~PathExists(content, call.params.path) => ~resp.success)
    /\ (/\ ~IsNullish(call.params.condition)
        /\ call.params.condition.v[1] \notin Conditions) => ~resp.success

\* C20: read_json, get_value and test_value are read-only: whatever their
\* outcome (success, failed condition, missing path, parse failure) they
\* never invoke the write sink, so the stored text is the same after the call
\* as before.
C20_ReadersWriteNothing ==
  (pc = "returned" /\ call.tool \in {"read_json", "get_value", "test_value"})
    => WroteNothing

\* a test that passed (a number greater than the value given), the store
\* left as it was
C20_Witness ==
  /\ Tested("greater") /\ Succeeded
  /\ resp.value.v > call.params.value.v
  /\ WroteNothing

\* transform_value was called with one of ops on a path that holds a number
TransformedNumber(ops) ==
  /\ Called("transform_value") /\ ~InvalidText(content)
  /\ PathExists(content, call.params.path)
  /\ CurrentValue.t = "number"
  /\ call.params.operation \in ops
\* the parameter the caller supplied, 1 when the caller omitted it
DeltaOrFactor == IF IsNullish(call.params.value) THEN 1 ELSE call.params.value.v

\* C21: transform_value on a number with a supplied numeric parameter d (any
\* number, 0 included) yields current + d for increment, current - d for
\* decrement and current * d for multiply; 1 is the delta or factor only when
\* the caller omits the parameter.
C21_TransformUsesParameter ==
  TransformedNumber({"increment", "decrement", "multiply"}) =>
    /\ Succeeded
    /\ ValueNow =
         Num(CASE call.params.operation = "increment" -> CurrentValue.v + DeltaOrFactor
               [] call.params.operation = "decrement" -> CurrentValue.v - DeltaOrFactor
               [] OTHER -> CurrentValue.v * DeltaOrFactor)

\* transform_value was called on a path that exists
TransformExisting ==
  /\ Called("transform_value") /\ ~InvalidText(content)
  /\ PathExists(content, call.params.path)
\* the type an operation requires of the current value; none for a name
\* that is no operation
RequiredType(operation) ==
  CASE operation \in {"uppercase", "lowercase"} -> "string"
    [] operation \in {"increment", "decrement", "multiply", "divide"} -> "number"
    [] operation \in {"sort", "reverse", "unique", "flatten"} -> "array"
    [] OTHER -> "none"

\* C22: transform_value returns success false with a reason and writes
\* nothing when the current value's type does not match the type the
\* operation requires, when the operation is divide with the explicit
\* parameter 0, or when the operation name is unknown; divide with the
\* parameter omitted succeeds and divides by 1.
C22_TransformFailures ==
  TransformExisting =>
    /\ (\/ RequiredType(call.params.operation) = "none"
        \/ RequiredType(call.params.operation) # JsonTypeTag(CurrentValue)
        \/ call.params.operation = "divide" /\ call.params.value = Num(0))
         => (ReturnedFailure /\ resp.error # <<>> /\ WroteNothing)
    /\ (/\ call.params.operation = "divide"
        /\ CurrentValue.t = "number"
        /\ IsNullish(call.params.value))
         => (Succeeded /\ ValueNow = CurrentValue /\ writes = <<fileContent>>)

\* a division of a number by an explicit 0, refused
C22_Witness ==
  /\ TransformExisting
  /\ call.params.operation = "divide" /\ call.params.value = Num(0)
  /\ CurrentValue.t = "number"
  /\ ReturnedFailure /\ resp.error = <<"Cannot divide by zero">>
  /\ WroteNothing

\* C23: setValueAtPath on a non-root path whose parent container does not
\* exist (an intermediate ancestor is missing) does not create or overwrite
\* anything: the document returned is structurally equal to the input.
C23_SetUnderMissingParentIsNoOp ==
  (Called("set_value") /\ ~InvalidText(content)
     /\ ParentMissing(content, call.params.path))
    => LET newData == setValueAtPath(DocBefore, call.params.path, call.params.value)
       IN /\ ~newData.threw
          /\ newData.val = DocBefore
          /\ (Succeeded => fileContent = stringifyJson(DocBefore))

\* the own member of x that part addresses: an element of an array by its
\* index, a property of an object by its name; undefined when there is none
OwnChild(x, part) ==
  IF IsArray(x) /\ ~IsNaN(part)
  THEN (IF ParseInt(part) < Len(x.v) THEN x.v[ParseInt(part) + 1] ELSE Undef)
  ELSE IF x.t = "object" /\ HasPair(x.v, part) THEN PairValue(x.v, part)
  ELSE Undef
\* what the first n parts lead to, going by own members only
RECURSIVE OwnAt(_, _, _)
OwnAt(doc, parts, n) ==
  IF n = 0 THEN doc ELSE OwnChild(OwnAt(doc, parts, n - 1), parts[n])
\* the existence rule at the final segment
OwnMember(doc, parts) ==
  LET container == OwnAt(doc, parts, Len(parts) - 1)
      last == parts[Len(parts)]
  IN IF IsArray(container) /\ ~IsNaN(last)
     THEN ParseInt(last) >= 0 /\ ParseInt(last) < Len(container.v)
     ELSE container.t = "object" /\ HasPair(container.v, last)

\* C24: the existence rule of path resolution at the final segment.  For an
\* array index, exists holds exactly when 0 <= index < length; for a property
\* name, exactly when the container is non-null and the key is an own member
\* of it: false, not an error, when the container is a string, number or
\* boolean, and false for names that are not own keys.
C24_ExistenceRule ==
  (Called("get_value") /\ ~InvalidText(content) /\ partsOf(call.params.path) # <<>>)
    => LET r == navigateToPath(DocBefore, call.params.path)
       IN /\ ~r.threw
          /\ r.exists = OwnMember(DocBefore, partsOf(call.params.path))

\* the path of the same segments written with dots only: "$.a.0" for "$.a[0]"
RECURSIVE DottedFrom(_, _)
DottedFrom(parts, i) ==
  IF i > Len(parts) THEN <<>> ELSE <<".", parts[i]>> \o DottedFrom(parts, i + 1)
\* the segments a path names, as written
Segments(path) == SelectSeq(path, LAMBDA tok : tok \notin {"$", ".", "[", "]"})
Dotted(path) == <<"$">> \o DottedFrom(Segments(path), 1)
\* the path as written has a bracketed index
Bracketed(path) == \E i \in DOMAIN path : path[i] = "["

\* C25: array-versus-object addressing is structural, not syntactic.  For
\* every document "$.a[0]" and "$.a.0" resolve to the same parent, key,
\* existence and value; when a is an array the segment addresses element 0,
\* and when a is an object it addresses the property named "0".
C25_AddressingIsStructural ==
  (Called("get_value") /\ ~InvalidText(content) /\ Bracketed(call.params.path))
    => LET r == navigateToPath(DocBefore, call.params.path)
           parts == Segments(call.params.path)
           container == OwnAt(DocBefore, parts, Len(parts) - 1)
       IN /\ Dotted(call.params.path) # call.params.path
          /\ navigateToPath(DocBefore, Dotted(call.params.path)) = r
          /\ (~r.threw /\ IsArray(container) /\ ~IsNaN(parts[Len(parts)])) =>
               /\ r.key.num /\ r.parent = container
               /\ r.value = ArrGet(container, ParseInt(parts[Len(parts)]))
          /\ (~r.threw /\ container.t = "object") =>
               /\ ~r.key.num /\ r.parent = container
               /\ r.value = PairValue(container.v, parts[Len(parts)])

\* the property named "0" of an object, found by a path written with brackets
C25_Witness ==
  /\ Called("get_value") /\ ~InvalidText(content)
  /\ call.params.path = <<"$", "[", "0", "]">>
  /\ DocBefore.t = "object"
  /\ navigateToPath(DocBefore, <<"$", ".", "0">>).exists
  /\ resp.value = Num(1)

\* new is es with exactly element i (0-based) removed, the later elements
\* shifted down by one
RemovedAt(es, i, new) ==
  /\ Len(new) = Len(es) - 1
  /\ \A j \in 1..Len(new) : new[j] = IF j <= i THEN es[j] ELSE es[j + 1]

\* C26: removeValueAtPath.  For an existing array index i the result array is
\* the input array with exactly element i removed, the later elements shifted
\* down and the length reduced by one (no gap or null left); for an existing
\* object key the key is absent from the result (not set to null); for a path
\* that does not exist the result is structurally equal to the input.
C26_RemoveAtPath ==
  (Called("remove_value") /\ ~InvalidText(content) /\ Segments(call.params.path) # <<>>)
    => LET parts == Segments(call.params.path)
           last == parts[Len(parts)]
           out == removeValueAtPath(DocBefore, call.params.path)
           container == OwnAt(DocBefore, parts, Len(parts) - 1)
       IN /\ ~out.threw
          /\ LET after == OwnAt(out.val, parts, Len(parts) - 1) IN
             IF ~OwnMember(DocBefore, parts) THEN out.val = DocBefore
             ELSE IF IsArray(container)
             THEN IsArray(after) /\ RemovedAt(container.v, ParseInt(last), after.v)
             ELSE /\ after.t = "object"
                  /\ ~HasPair(after.v, last)
                  /\ after.v = SelectSeq(container.v, LAMBDA pr : pr[1] # last)

\* C27: in batch_operations a step whose recorded outcome is a failure leaves
\* the evolving document exactly as it was before that step: no failed step
\* (in particular a move whose destination write raises after the source was
\* removed) contributes a partial change to the final document.
C27_FailedStepChangesNothing ==
  [][(pc = "batch" /\ ~results'[idx + 1].success) => data' = data]_vars

\* C28: in batch_operations a move step whose from path does not exist leaves
\* the document unchanged: it neither removes nor alters a value that already
\* exists at the destination path.
C28_MoveFromMissingChangesNothing ==
  [][(/\ pc = "batch"
      /\ Operations[idx + 1].op = "move"
      /\ Operations[idx + 1].from.t = "string"
      /\ getValueAtPath(data, Operations[idx + 1].from.v) = Ret(Undef))
       => stringifyJson(data') = stringifyJson(data)]_vars

\* how many times val occurs among es
Occurrences(es, val) == Cardinality({i \in DOMAIN es : es[i] = val})
\* from and to are two index positions of one array of the document
SameArrayPositions(doc, from, to) ==
  LET f == Segments(from)
      t == Segments(to)
  IN /\ f # <<>> /\ Len(t) = Len(f)
     /\ SubSeq(t, 1, Len(t) - 1) = SubSeq(f, 1, Len(f) - 1)
     /\ IsArray(OwnAt(doc, f, Len(f) - 1))
     /\ ~IsNaN(f[Len(f)]) /\ ~IsNaN(t[Len(t)])
     /\ OwnMember(doc, f) /\ OwnMember(doc, t)

\* C29: move_value between two index positions of the same array (from equal
\* to to included) loses no element: the array afterwards holds the same
\* multiset of elements as before the call, and when from equals to the
\* document is unchanged.
C29_MoveWithinArrayLosesNothing ==
  (/\ Called("move_value") /\ ~InvalidText(content)
   /\ SameArrayPositions(DocBefore, call.params.from, call.params.to)) =>
    LET f == Segments(call.params.from)
        before == OwnAt(DocBefore, f, Len(f) - 1).v
        after == OwnAt(parseJson(fileContent).data, f, Len(f) - 1)
    IN /\ Succeeded
       /\ IsArray(after)
       /\ \A val \in Range(before) \cup Range(after.v) :
            Occurrences(after.v, val) = Occurrences(before, val)
       /\ Segments(call.params.from) = Segments(call.params.to) =>
            fileContent = content

\* C30: no lost update between calls.  A call that starts after an earlier
\* mutating call has written its result reads that written text, whether or
\* not the host rendered in between; so when both calls write, the second
\* one's result is computed from the first one's.
C30_NoLostUpdate ==
  (earlier # <<>> /\ earlier[1].wrote /\ pc # "idle") =>
    content = earlier[1].text

====
